---- MODULE Spec2Model ----
(***************************************************************************)
(* The incremental LZ4 frame streams of xmake                              *)
(* (src/core/src/xmake/lz4/prefix.h): xm_lz4_cstream_t, the writer, and    *)
(* xm_lz4_dstream_t, the reader, over the LZ4F codec.                      *)
(*                                                                         *)
(* Byte counts are scaled so that every size comparison of the code can    *)
(* go both ways on short sequences: KiB64 stands for 64*1024 bytes,        *)
(* LZ4F_HEADER_SIZE_MAX for the 19 bytes of the header scratch and         *)
(* TB_STREAM_BLOCK_MAXN for the 8192 bytes of the output scratch.          *)
(*                                                                         *)
(* The LZ4F codec is a collaborator whose code is not part of prefix.h;    *)
(* it is modelled by a small deterministic codec with the contract the     *)
(* specification gives it: a frame header carrying a magic byte and a      *)
(* block-size class, blocks that are a length byte followed by that many   *)
(* payload bytes, and a decoder that reports how many input bytes it took  *)
(* and how many output bytes it wrote into a destination of fixed size.    *)
(*                                                                         *)
(* The checks of the two feed functions are tb_assert_and_check_return_val *)
(* and are modelled as they behave in a release build: they return.  The   *)
(* tb_malloc of the feed function succeeds; the two constructors are       *)
(* modelled with each of their points of failure, and heap counts what has *)
(* been allocated and freed.  A codec context that could not be created is *)
(* left null by the codec.                                                 *)
(***************************************************************************)
EXTENDS Integers, Sequences, FiniteSets, TLC

VARIABLES cs, c_last, plain, wire, c_calls, c_seen,
          ds, d_last, d_in, d_outcat, d_calls, fed,
          split, heap, life, sio

vars == <<cs, c_last, plain, wire, c_calls, c_seen,
          ds, d_last, d_in, d_outcat, d_calls, fed, split, heap, life,
          sio>>

c_vars == <<cs, c_last, plain, wire, c_calls, c_seen>>
d_vars == <<ds, d_last, d_in, d_outcat, d_calls, fed>>
l_vars == <<heap, life>>
s_vars == <<sio>>

(***************************************************************************)
(* Sizes (scaled) and the bounds of the model.                             *)
(***************************************************************************)
\* 64 * 1024 bytes, the unit of write_maxn and of the block-size table.
KiB64 == 3
\* sizeof(stream->header): LZ4F_HEADER_SIZE_MAX (19 in lz4frame.h).
LZ4F_HEADER_SIZE_MAX == 2
\* sizeof(stream->output): TB_STREAM_BLOCK_MAXN (8192 in tbox).
TB_STREAM_BLOCK_MAXN == 1
\* the longest chunk a caller presents to the decompression stream
MaxChunk == 3
\* the most bytes a caller presents to one decompression stream in all
MaxTotal == 6
\* the most calls of xm_lz4_dstream_decompress on one stream
MaxDFeeds == 3
\* the most calls of xm_lz4_cstream_compress on one stream
MaxCFeeds == 3
\* the most bytes a caller presents to one compression stream in all
MaxPlain == 6
\* the longest chunk the round-trip caller presents to the decompressor
MaxPump == 2
\* the most files, file locks and sockets a script opens
MaxOpen == 1
MaxLocks == 1
MaxSocks == 1
\* the most times one handle is given to the hooking loop
MaxHooks == 2

\* the values of LZ4F_blockSizeID_t the switch of the decoder names
LZ4F_default == 0
LZ4F_max64KB == 4
LZ4F_max256KB == 5
LZ4F_max1MB == 6
LZ4F_max4MB == 7

\* the first byte of a frame (the magic number of the frame format)
LZ4F_MAGIC == 4

\* plain bytes a caller compresses; bytes a caller feeds to the decoder:
\* 4 is the magic byte, the 64KB class and a block length too long for it,
\* 5 is the 256KB class, 0 is the default class and an empty block, 1 is an
\* unlisted class and the length of a one-byte block.
PlainByte == {0, 1}
DByte == {0, 1, LZ4F_MAGIC, LZ4F_max256KB}

Min(a, b) == IF a < b THEN a ELSE b
Take(s, n) == SubSeq(s, 1, n)
Drop(s, n) == SubSeq(s, n + 1, Len(s))
Zeros(n) == [i \in 1..n |-> 0]
SeqsUpTo(B, n) == UNION {[1..m -> B] : m \in 0..n}

\* tb_null
NULL == [null |-> TRUE]

(***************************************************************************)
(* The heap: how many times each kind of object has been allocated         *)
(* (tb_malloc, tb_malloc0_type, LZ4F_create...Context) and freed (tb_free, *)
(* LZ4F_free...Context).                                                   *)
(***************************************************************************)
CResources == {"cstream", "cbuffer", "cctx"}
DResources == {"dstream", "dbuffer", "dctx"}
Resources == CResources \cup DResources

HeapEmpty == [alloc |-> [r \in Resources |-> 0], free |-> [r \in Resources |-> 0]]
HeapAlloc(h, r) == [h EXCEPT !.alloc[r] = @ + 1]
HeapFree(h, r) == [h EXCEPT !.free[r] = @ + 1]

(***************************************************************************)
(* The codec (LZ4F), by its contract.                                      *)
(***************************************************************************)
\* LZ4F_compressBound(srcSize, prefs): a block is its length byte and payload
LZ4F_compressBound(srcSize) == srcSize + 1

\* LZ4F_compressBegin: the frame header (magic, block-size class) written at
\* the start of a zeroed scratch of LZ4F_HEADER_SIZE_MAX bytes
LZ4F_compressBegin ==
    [i \in 1..LZ4F_HEADER_SIZE_MAX |->
        IF i = 1 THEN LZ4F_MAGIC ELSE IF i = 2 THEN LZ4F_max64KB ELSE 0]

\* LZ4F_compressUpdate: one block for the chunk
LZ4F_compressUpdate(src) == <<Len(src)>> \o src

\* the largest block of a block-size class, 0 for a value that is no class
LZ4F_blockSize(id) ==
    IF id \in {LZ4F_default, LZ4F_max64KB} THEN KiB64
    ELSE IF id = LZ4F_max256KB THEN 4 * KiB64
    ELSE IF id = LZ4F_max1MB THEN 16 * KiB64
    ELSE IF id = LZ4F_max4MB THEN 64 * KiB64
    ELSE 0

\* LZ4F_getFrameInfo: an error for a wrong magic byte, else the class
LZ4F_getFrameInfo(header) ==
    [err |-> header[1] # LZ4F_MAGIC, blockSizeID |-> header[2]]

\* LZ4F_createDecompressionContext: no frame seen, nothing pending
LZ4F_createDecompressionContext == [maxBlock |-> 0, tmpOut |-> <<>>]

\* LZ4F_decompress(dctx, dst, &dstsize, src, &srcsize): flushes what it still
\* holds decoded, then takes whole blocks from src while dst has room for
\* what they decode to; a block longer than the frame allows is an error.
RECURSIVE LZ4F_decompress_loop(_, _, _, _, _, _)
LZ4F_decompress_loop(maxBlock, tmp, src, n, out, cap) ==
    IF tmp # <<>>
    THEN LET k == Min(cap - Len(out), Len(tmp)) IN
         IF k < Len(tmp)
         THEN [err |-> FALSE, out |-> out \o Take(tmp, k), srcsize |-> n,
               tmpOut |-> Drop(tmp, k)]
         ELSE LZ4F_decompress_loop(maxBlock, <<>>, src, n, out \o tmp, cap)
    ELSE IF n >= Len(src)
    THEN [err |-> FALSE, out |-> out, srcsize |-> n, tmpOut |-> <<>>]
    ELSE LET L == src[n + 1] IN
         IF L > maxBlock
         THEN [err |-> TRUE, out |-> <<>>, srcsize |-> n, tmpOut |-> <<>>]
         ELSE IF n + 1 + L > Len(src)
         THEN [err |-> FALSE, out |-> out, srcsize |-> n, tmpOut |-> <<>>]
         ELSE LZ4F_decompress_loop(maxBlock, SubSeq(src, n + 2, n + 1 + L),
                                   src, n + 1 + L, out, cap)

LZ4F_decompress(dctx, src, cap) ==
    LZ4F_decompress_loop(dctx.maxBlock, dctx.tmpOut, src, 0, <<>>, cap)

(***************************************************************************)
(* xm_lz4_cstream_t                                                        *)
(***************************************************************************)
\* xm_lz4_cstream_init, every allocation succeeding
xm_lz4_cstream_init ==
    [cctx |-> TRUE,
     buffer_alloc |-> TRUE,
     buffer |-> <<>>,
     buffer_maxn |-> LZ4F_compressBound(KiB64),
     write_maxn |-> KiB64,
     header_written |-> FALSE,
     header |-> LZ4F_compressBegin]

\* the record tb_malloc0_type(xm_lz4_cstream_t) returns: all zero
CZero ==
    [cctx |-> FALSE,
     buffer_alloc |-> FALSE,
     buffer |-> <<>>,
     buffer_maxn |-> 0,
     write_maxn |-> 0,
     header_written |-> FALSE,
     header |-> Zeros(LZ4F_HEADER_SIZE_MAX)]

\* xm_lz4_cstream_exit
xm_lz4_cstream_exit(stream, h) ==
    IF stream = NULL THEN h
    ELSE LET h1 == IF stream.cctx THEN HeapFree(h, "cctx") ELSE h
             h2 == IF stream.buffer_alloc THEN HeapFree(h1, "cbuffer") ELSE h1
         IN HeapFree(h2, "cstream")

\* faulty variant: a construction that failed returns null and frees nothing
CInitCleanupNone(ok, stream, h) ==
    [stream |-> IF ok THEN stream ELSE NULL, heap |-> h]

\* if (!ok && stream) { xm_lz4_cstream_exit(stream); stream = tb_null; }
\* return stream;
CInitCleanup(ok, stream, h) ==
    IF ~ok /\ stream # NULL
    THEN [stream |-> NULL, heap |-> xm_lz4_cstream_exit(stream, h)]
    ELSE [stream |-> stream, heap |-> h]

\* the steps of xm_lz4_cstream_init that can fail, "none" for none of them
CInitFails == {"none", "stream", "buffer", "cctx", "begin"}

\* xm_lz4_cstream_init on heap h with the step fail failing
xm_lz4_cstream_init_at(fail, h) ==
    IF fail = "stream" THEN CInitCleanup(FALSE, NULL, h)
    ELSE LET s1 == [CZero EXCEPT !.write_maxn = KiB64,
                                 !.buffer_maxn = LZ4F_compressBound(KiB64)]
             h1 == HeapAlloc(h, "cstream")
             s2 == [s1 EXCEPT !.buffer_alloc = TRUE]
             h2 == HeapAlloc(h1, "cbuffer")
             s3 == [s2 EXCEPT !.cctx = TRUE]
             h3 == HeapAlloc(h2, "cctx")
             s4 == [s3 EXCEPT !.header = LZ4F_compressBegin]
         IN IF fail = "buffer" THEN CInitCleanup(FALSE, s1, h1)
            ELSE IF fail = "cctx" THEN CInitCleanup(FALSE, s2, h2)
            ELSE IF fail = "begin" THEN CInitCleanup(FALSE, s3, h3)
            ELSE CInitCleanup(TRUE, s4, h3)

\* tb_assert_and_check_return_val(stream && stream->cctx && idata && isize && podata, -1)
CCheckArgs(stream, idata) == stream.cctx /\ Len(idata) # 0

\* faulty variant: the chunk is measured against the output buffer
CCheckSizeOfBuffer(stream, isize) == isize <= stream.buffer_maxn

\* tb_assert_and_check_return_val(isize <= stream->write_maxn, -1)
CCheckSize(stream, isize) == isize <= stream.write_maxn

\* faulty variant: the flag is not consulted
CHeaderPendingAlways(stream) == TRUE

\* if (!stream->header_written)
CHeaderPending(stream) == ~stream.header_written

\* faulty variant: the length of the frame header the codec wrote, which
\* is shorter than the scratch
CHeaderRetShort(stream) == Len(stream.header) - 1

\* return sizeof(stream->header)
CHeaderRet(stream) == Len(stream.header)

CRes(stream, ret, odata, codec) ==
    [stream |-> stream, ret |-> ret, odata |-> odata, codec |-> codec]

\* xm_lz4_cstream_compress; cerr is LZ4F_isError(real), the codec's to decide
xm_lz4_cstream_compress(stream, idata, cerr) ==
    IF ~CCheckArgs(stream, idata) THEN CRes(stream, -1, <<>>, FALSE)
    ELSE IF ~CCheckSize(stream, Len(idata)) THEN CRes(stream, -1, <<>>, FALSE)
    ELSE IF CHeaderPending(stream)
    THEN CRes([stream EXCEPT !.header_written = TRUE],
              CHeaderRet(stream), Take(stream.header, CHeaderRet(stream)), FALSE)
    ELSE IF cerr THEN CRes(stream, -1, <<>>, TRUE)
    ELSE LET real == LZ4F_compressUpdate(idata) IN
         CRes([stream EXCEPT !.buffer = real], Len(real), real, TRUE)

(***************************************************************************)
(* xm_lz4_dstream_t                                                        *)
(***************************************************************************)
\* xm_lz4_dstream_init, every allocation succeeding (tb_malloc0_type zeroes)
xm_lz4_dstream_init ==
    [dctx |-> LZ4F_createDecompressionContext,
     buffer_alloc |-> FALSE,
     buffer_mallocs |-> 0,
     buffer |-> <<>>,
     buffer_size |-> 0,
     buffer_maxn |-> 0,
     header_size |-> 0,
     header |-> Zeros(LZ4F_HEADER_SIZE_MAX),
     output |-> <<>>]

\* the record tb_malloc0_type(xm_lz4_dstream_t) returns: all zero
DZero == [xm_lz4_dstream_init EXCEPT !.dctx = NULL]

\* faulty variant: the input buffer is not freed
xm_lz4_dstream_exit_keeps_buffer(stream, h) ==
    IF stream = NULL THEN h
    ELSE LET h1 == IF stream.dctx # NULL THEN HeapFree(h, "dctx") ELSE h
         IN HeapFree(h1, "dstream")

\* xm_lz4_dstream_exit
xm_lz4_dstream_exit(stream, h) ==
    IF stream = NULL THEN h
    ELSE LET h1 == IF stream.dctx # NULL THEN HeapFree(h, "dctx") ELSE h
             h2 == IF stream.buffer_alloc THEN HeapFree(h1, "dbuffer") ELSE h1
         IN HeapFree(h2, "dstream")

\* if (!ok && stream) { xm_lz4_dstream_exit(stream); stream = tb_null; }
\* return stream;
DInitCleanup(ok, stream, h) ==
    IF ~ok /\ stream # NULL
    THEN [stream |-> NULL, heap |-> xm_lz4_dstream_exit(stream, h)]
    ELSE [stream |-> stream, heap |-> h]

\* the steps of xm_lz4_dstream_init that can fail, "none" for none of them
DInitFails == {"none", "stream", "dctx"}

\* xm_lz4_dstream_init on heap h with the step fail failing
xm_lz4_dstream_init_at(fail, h) ==
    IF fail = "stream" THEN DInitCleanup(FALSE, NULL, h)
    ELSE LET s1 == DZero
             h1 == HeapAlloc(h, "dstream")
             s2 == [s1 EXCEPT !.dctx = LZ4F_createDecompressionContext]
             h2 == HeapAlloc(h1, "dctx")
         IN IF fail = "dctx" THEN DInitCleanup(FALSE, s1, h1)
            ELSE DInitCleanup(TRUE, s2, h2)

\* const tb_size_t header_size = sizeof(stream->header)
header_size == LZ4F_HEADER_SIZE_MAX

\* tb_assert_and_check_return_val(stream && stream->dctx && idata && isize && podata, -1)
DCheckArgs(stream, idata) == Len(idata) # 0

\* faulty variant: the whole chunk is copied (no tb_min)
DHeaderCopyAll(stream, isize) == isize

\* faulty variant: the last byte of the header is never taken
DHeaderCopyShort(stream, isize) ==
    Min(header_size - stream.header_size - 1, isize)

\* tb_size_t size = tb_min(header_size - stream->header_size, isize)
DHeaderCopy(stream, isize) == Min(header_size - stream.header_size, isize)

\* faulty variant: the switch has no default: return -1
DBlockSizeTableNoDefault(id) ==
    IF id = LZ4F_max256KB THEN 4 * KiB64
    ELSE IF id = LZ4F_max1MB THEN 16 * KiB64
    ELSE IF id = LZ4F_max4MB THEN 64 * KiB64
    ELSE KiB64

\* faulty variant: the capacities of the two largest classes are exchanged
DBlockSizeTableSwapped(id) ==
    IF id \in {LZ4F_default, LZ4F_max64KB} THEN KiB64
    ELSE IF id = LZ4F_max256KB THEN 4 * KiB64
    ELSE IF id = LZ4F_max1MB THEN 64 * KiB64
    ELSE IF id = LZ4F_max4MB THEN 16 * KiB64
    ELSE 0

\* the switch on info.blockSizeID; 0 stands for its default: return -1
DBlockSizeTable(id) ==
    IF id \in {LZ4F_default, LZ4F_max64KB} THEN KiB64
    ELSE IF id = LZ4F_max256KB THEN 4 * KiB64
    ELSE IF id = LZ4F_max1MB THEN 16 * KiB64
    ELSE IF id = LZ4F_max4MB THEN 64 * KiB64
    ELSE 0

\* faulty variant: the test of isize is missing
DHasBlockDataAlways(stream, isize) == stream.header_size = header_size

\* tb_check_return_val(stream->header_size == header_size && isize, 0)
DHasBlockData(stream, isize) == stream.header_size = header_size /\ isize # 0

\* faulty variant: the room left in the buffer is not checked
DCheckRoomNoSize(stream, isize) == stream.buffer_alloc

\* faulty variant: one byte more than the buffer holds is let in
DCheckRoomOneMore(stream, isize) ==
    stream.buffer_alloc /\ stream.buffer_size + isize <= stream.buffer_maxn + 1

\* tb_assert_and_check_return_val(stream->buffer &&
\*     stream->buffer_size + isize <= stream->buffer_maxn, -1)
DCheckRoom(stream, isize) ==
    stream.buffer_alloc /\ stream.buffer_size + isize <= stream.buffer_maxn

\* faulty variant: the bytes left over are not moved to the front
DCompactNoMove(buffer, srcsize) == Take(buffer, Len(buffer) - srcsize)

\* faulty variant: the bytes are moved from one place too far
DCompactOneOff(buffer, srcsize) ==
    IF srcsize < Len(buffer) THEN Drop(buffer, srcsize + 1) \o <<0>> ELSE <<>>

\* tb_memmov(stream->buffer, stream->buffer + srcsize, ...); buffer_size -= srcsize
DCompact(buffer, srcsize) == Drop(buffer, srcsize)

DRes(stream, ret, odata, codec, took) ==
    [stream |-> stream, ret |-> ret, odata |-> odata, codec |-> codec,
     took |-> took]

\* faulty variant: a complete header does not close the header phase
DInHeaderPhaseAgain(stream) == stream.header_size <= header_size

\* if (stream->header_size < header_size)
DInHeaderPhase(stream) == stream.header_size < header_size

\* the header phase: the copy into stream->header
DHeaderPhase(stream, idata) ==
    IF DInHeaderPhase(stream)
    THEN LET size == DHeaderCopy(stream, Len(idata)) IN
         [stream |-> [stream EXCEPT
                        !.header = [i \in 1..Len(@) |->
                            IF i > stream.header_size /\ i <= stream.header_size + size
                            THEN idata[i - stream.header_size] ELSE @[i]],
                        !.header_size = @ + size],
          took |-> size,
          entered |-> TRUE]
    ELSE [stream |-> stream, took |-> 0, entered |-> FALSE]

\* faulty variant: the chunk is copied to the start of the buffer
DAppendAtStart(buffer, rest) == rest \o Drop(buffer, Len(rest))

\* tb_memcpy(stream->buffer + stream->buffer_size, idata, isize)
DAppend(buffer, rest) == buffer \o rest

\* faulty variant: the chunk is counted before the check refuses it
DOnOverflowCounted(stream, rest) ==
    [stream EXCEPT !.buffer_size = @ + Len(rest)]

\* the stream as the failed check of line 233 leaves it
DOnOverflow(stream, rest) == stream

\* the block phase: overflow check, append, decode, compaction
DBlockPhase(stream, rest, took) ==
    IF ~DHasBlockData(stream, Len(rest)) THEN DRes(stream, 0, <<>>, FALSE, took)
    ELSE IF ~DCheckRoom(stream, Len(rest))
    THEN DRes(DOnOverflow(stream, rest), -1, <<>>, FALSE, took)
    ELSE LET s3 == [stream EXCEPT !.buffer = DAppend(@, rest),
                                  !.buffer_size = @ + Len(rest)]
             d == LZ4F_decompress(s3.dctx, s3.buffer, TB_STREAM_BLOCK_MAXN)
         IN IF d.err THEN DRes(s3, -1, <<>>, TRUE, took)
            ELSE DRes([s3 EXCEPT !.dctx.tmpOut = d.tmpOut,
                                 !.output = d.out,
                                 !.buffer = DCompact(@, d.srcsize),
                                 !.buffer_size = @ - d.srcsize],
                      Len(d.out), d.out, TRUE, took)

\* xm_lz4_dstream_decompress
xm_lz4_dstream_decompress(stream, idata) ==
    IF ~DCheckArgs(stream, idata) THEN DRes(stream, -1, <<>>, FALSE, 0)
    ELSE LET h == DHeaderPhase(stream, idata)
             s1 == h.stream
             rest == Drop(idata, h.took)
             completes == h.entered /\ s1.header_size = header_size
             info == LZ4F_getFrameInfo(s1.header)
             maxn == DBlockSizeTable(info.blockSizeID)
         IN IF completes /\ info.err THEN DRes(s1, -1, <<>>, FALSE, h.took)
            ELSE IF completes /\ maxn = 0 THEN DRes(s1, -1, <<>>, FALSE, h.took)
            ELSE IF completes
            THEN DBlockPhase([s1 EXCEPT !.buffer_maxn = maxn,
                                        !.buffer_alloc = TRUE,
                                        !.buffer_mallocs = @ + 1,
                                        !.dctx.maxBlock =
                                            LZ4F_blockSize(info.blockSizeID)],
                             rest, h.took)
            ELSE DBlockPhase(s1, rest, h.took)

(***************************************************************************)
(* The sandbox io module (src/xmake/core/sandbox/modules/io.lua): the      *)
(* handles it returns and the methods it hooks onto them.  A field name is *)
(* a base name and the number of underscores put in front of it.  The      *)
(* handles come from the host io module, which is not part of io.lua: a    *)
(* host handle answers every method name the sandbox wraps with a method   *)
(* of its class, has no fields of its own at first, and the host hands out *)
(* the same handle for the same standard file each time.                   *)
(***************************************************************************)
\* the functions defined on sandbox_io_file, sandbox_io_filelock and
\* sandbox_io_socket
FileMethods ==
    {"size", "rawfd", "close", "flush", "isatty", "seek", "read", "write",
     "print", "printf", "writef", "load", "save"}
LockMethods == {"lock", "trylock", "unlock", "close"}
SocketMethods == {}

SandboxTable(kind) ==
    IF kind = "file" THEN FileMethods
    ELSE IF kind = "filelock" THEN LockMethods
    ELSE SocketMethods

\* "stdin", "stdout", "stderr": the keys of the lazy loading, by number
StdKeys == 1..3

\* a field name; "_" .. name; name:startswith("_")
Key(n) == [us |-> 0, base |-> n]
Underscore(key) == [key EXCEPT !.us = @ + 1]
StartsWithUnderscore(key) == key.us > 0

Keys(kind) == {[us |-> u, base |-> n] : u \in 0..1, n \in SandboxTable(kind)}

\* the values of a field: nil, a method of the host class, a function of
\* the sandbox table
NIL == [by |-> "nil", kind |-> "", name |-> ""]
HostMethod(kind, n) == [by |-> "host", kind |-> kind, name |-> n]
Wrapper(kind, n) == [by |-> "sandbox", kind |-> kind, name |-> n]
IsFunction(v) == v.by \in {"host", "sandbox"}

\* what the class of a host handle answers for a field name
HostClass(kind, key) ==
    IF ~StartsWithUnderscore(key) /\ key.base \in SandboxTable(kind)
    THEN HostMethod(kind, key.base) ELSE NIL

\* file[key]: the field of the handle itself, else the method of its class
Lookup(t, kind, key) == IF t[key] # NIL THEN t[key] ELSE HostClass(kind, key)

\* a or b
LuaOr(a, b) == IF a # NIL THEN a ELSE b

\* faulty variant: the method now under the name is taken for the original
HookOriginalPlain(t, kind, key) == Lookup(t, kind, key)

\* file["_" .. name] or file[name]
HookOriginal(t, kind, key) ==
    LuaOr(Lookup(t, kind, Underscore(key)), Lookup(t, kind, key))

\* the names of the sandbox table the first loop takes
HookNames(kind) ==
    {k \in {Key(n) : n \in SandboxTable(kind)} :
        ~StartsWithUnderscore(k) /\ IsFunction(Wrapper(kind, k.base))}

\* the table hooked after the first loop
Hooked(t, kind) ==
    [k \in Keys(kind) |->
        IF k \in HookNames(kind) THEN Wrapper(kind, k.base)
        ELSE IF \E n \in HookNames(kind) : Underscore(n) = k
        THEN HookOriginal(t, kind, [k EXCEPT !.us = @ - 1])
        ELSE NIL]

\* the handle after the second loop: every entry of hooked is stored in it
Hook(t, kind) ==
    [k \in Keys(kind) |->
        IF Hooked(t, kind)[k] # NIL THEN Hooked(t, kind)[k] ELSE t[k]]

\* the handles of the host: the three standard files, and the files, file
\* locks and sockets a script opens
StdFile(i) == [kind |-> "file", origin |-> "std", id |-> i]
Opened(kind, i) == [kind |-> kind, origin |-> "open", id |-> i]
Handles ==
    {StdFile(i) : i \in StdKeys}
        \cup {Opened("file", i) : i \in 1..MaxOpen}
        \cup {Opened("filelock", i) : i \in 1..MaxLocks}
        \cup {Opened("socket", i) : i \in 1..MaxSocks}

\* sio.inst: the fields of each handle; sio.hooks: how many times the
\* sandbox has returned it; sio.cache: the standard files stored in
\* sandbox_io by the lazy loading; sio.raised: the latest call raised
SioInit ==
    [inst |-> [h \in Handles |-> [k \in Keys(h.kind) |-> NIL]],
     hooks |-> [h \in Handles |-> 0],
     cache |-> [i \in StdKeys |-> FALSE],
     raised |-> FALSE]

InitS == sio = SioInit

\* the hooking of handle h, and its return
SioReturn(st, h) ==
    [st EXCEPT !.inst[h] = Hook(@, h.kind), !.hooks[h] = @ + 1,
               !.raised = FALSE]

\* the next handle of a kind the host opens
NextOpened(kind) ==
    Opened(kind, 1 + Cardinality({h \in Handles :
        h.kind = kind /\ h.origin = "open" /\ sio.hooks[h] > 0}))

\* sandbox_io.stdfile("/dev/" .. key); ok: the host returned the file
sandbox_io_stdfile(i, ok) ==
    /\ sio.hooks[StdFile(i)] < MaxHooks
    /\ sio' = IF ok THEN SioReturn(sio, StdFile(i))
              ELSE [sio EXCEPT !.raised = TRUE]
    /\ UNCHANGED <<c_vars, d_vars, split, l_vars>>

\* sandbox_io.open
sandbox_io_open(ok) ==
    /\ NextOpened("file") \in Handles
    /\ sio' = IF ok THEN SioReturn(sio, NextOpened("file"))
              ELSE [sio EXCEPT !.raised = TRUE]
    /\ UNCHANGED <<c_vars, d_vars, split, l_vars>>

\* sandbox_io.openlock
sandbox_io_openlock(ok) ==
    /\ NextOpened("filelock") \in Handles
    /\ sio' = IF ok THEN SioReturn(sio, NextOpened("filelock"))
              ELSE [sio EXCEPT !.raised = TRUE]
    /\ UNCHANGED <<c_vars, d_vars, split, l_vars>>

\* sandbox_io.opensock
sandbox_io_opensock(ok) ==
    /\ NextOpened("socket") \in Handles
    /\ sio' = IF ok THEN SioReturn(sio, NextOpened("socket"))
              ELSE [sio EXCEPT !.raised = TRUE]
    /\ UNCHANGED <<c_vars, d_vars, split, l_vars>>

\* sandbox_io.stdin, .stdout, .stderr: the __index of the lazy loading
sandbox_io_index(i, ok) ==
    /\ sio.hooks[StdFile(i)] < MaxHooks
    /\ sio' = IF sio.cache[i] THEN [sio EXCEPT !.raised = FALSE]
              ELSE IF ok
              THEN [SioReturn(sio, StdFile(i)) EXCEPT !.cache[i] = TRUE]
              ELSE [sio EXCEPT !.raised = TRUE]
    /\ UNCHANGED <<c_vars, d_vars, split, l_vars>>

(***************************************************************************)
(* The callers.  c_last and d_last record the latest call on each stream:  *)
(* its number n, its chunk, the stream before it (pre), what it returned   *)
(* (ret, and odata, the ret bytes behind *podata), whether it called the   *)
(* codec, and how many calls have returned -1 so far (errs); d_last also   *)
(* how many header bytes the call copied (took) and how many calls so far  *)
(* had a chunk of one byte (ones).  failed tells whether a call before the *)
(* latest one returned -1 for a chunk that was not empty.  d_last.accepted  *)
(* is the bytes, in order, that calls so far appended to the input buffer  *)
(* (the chunks past their header part that passed the check of line 233),  *)
(* d_last.consumed the bytes the codec has reported as consumed.           *)
(***************************************************************************)
CNoCall ==
    [n |-> 0, chunk |-> <<>>, pre |-> xm_lz4_cstream_init, ret |-> 0,
     odata |-> <<>>, codec |-> FALSE, errs |-> 0, failed |-> FALSE]

DNoCall ==
    [n |-> 0, chunk |-> <<>>, pre |-> xm_lz4_dstream_init, ret |-> 0,
     odata |-> <<>>, codec |-> FALSE, took |-> 0, errs |-> 0, ones |-> 0,
     failed |-> FALSE, accepted |-> <<>>, consumed |-> <<>>]

SplitIdle ==
    [S |-> <<>>, k |-> 0, pc |-> "idle",
     one |-> DRes(xm_lz4_dstream_init, 0, <<>>, FALSE, 0),
     a |-> DRes(xm_lz4_dstream_init, 0, <<>>, FALSE, 0),
     b |-> DRes(xm_lz4_dstream_init, 0, <<>>, FALSE, 0)]

InitC ==
    /\ cs = xm_lz4_cstream_init
    /\ c_last = CNoCall
    /\ plain = <<>>
    /\ wire = <<>>
    /\ c_calls = 0
    /\ c_seen = 0

InitD ==
    /\ ds = xm_lz4_dstream_init
    /\ d_last = DNoCall
    /\ d_in = <<>>
    /\ d_outcat = <<>>
    /\ d_calls = 0
    /\ fed = 0

\* the heap once both constructors have succeeded
HeapLive ==
    xm_lz4_dstream_init_at("none",
        xm_lz4_cstream_init_at("none", HeapEmpty).heap).heap

\* what the caller holds of each stream: nothing yet ("none"), a stream
\* ("live"), the null a failed constructor returned ("null"), or a stream it
\* has destroyed ("exited"); the step of each constructor that failed; and,
\* of a destroyed decompression stream, whether a call on it returned -1
LifeNone ==
    [c |-> "none", d |-> "none", cfail |-> "none", dfail |-> "none",
     derrs |-> FALSE]

LifeLive == [LifeNone EXCEPT !.c = "live", !.d = "live"]

InitL == heap = HeapLive /\ life = LifeLive

Init == InitC /\ InitD /\ split = SplitIdle /\ InitL /\ InitS

\* the latest call returned -1 and its chunk was not empty: the chunk was too
\* long or the codec refused it
CFatal == c_last.ret < 0 /\ c_last.chunk # <<>>

\* the latest call returned -1 and its chunk was not empty: the header was
\* refused, the block-size class unknown, the buffer too small or the block
\* refused by the codec
DFatal == d_last.ret < 0 /\ d_last.chunk # <<>>

\* the chunks a caller compresses: every chunk up to write_maxn bytes, and
\* one that is a byte too long
CChunks == SeqsUpTo(PlainByte, KiB64) \cup {Zeros(KiB64 + 1)}

\* one call of xm_lz4_cstream_compress; the caller appends what it returns
\* to the sink (wire)
CFeed(chunk, cerr) ==
    /\ c_last.n < MaxCFeeds
    /\ c_seen + Len(chunk) <= MaxPlain
    /\ LET r == xm_lz4_cstream_compress(cs, chunk, cerr) IN
       /\ cs' = r.stream
       /\ c_last' = [n |-> c_last.n + 1, chunk |-> chunk, pre |-> cs,
                     ret |-> r.ret, odata |-> r.odata, codec |-> r.codec,
                     errs |-> c_last.errs + (IF r.ret < 0 THEN 1 ELSE 0),
                     failed |-> c_last.failed \/ CFatal]
       /\ plain' = IF r.ret >= 0 THEN plain \o chunk ELSE plain
       /\ wire' = wire \o r.odata
       /\ c_calls' = c_calls + (IF r.codec THEN 1 ELSE 0)
       /\ c_seen' = c_seen + Len(chunk)
    /\ UNCHANGED <<d_vars, split, l_vars, s_vars>>

\* one call of xm_lz4_dstream_decompress
DStep(chunk) ==
    LET r == xm_lz4_dstream_decompress(ds, chunk)
        rest == Drop(chunk, r.took)
        srcsize == IF r.codec /\ r.ret >= 0
                   THEN LZ4F_decompress([maxBlock |-> r.stream.dctx.maxBlock,
                                         tmpOut |-> ds.dctx.tmpOut],
                                        ds.buffer \o rest,
                                        TB_STREAM_BLOCK_MAXN).srcsize
                   ELSE 0
    IN
    /\ ds' = r.stream
    /\ d_last' = [n |-> d_last.n + 1, chunk |-> chunk, pre |-> ds,
                  ret |-> r.ret, odata |-> r.odata, codec |-> r.codec,
                  took |-> r.took,
                  errs |-> d_last.errs + (IF r.ret < 0 THEN 1 ELSE 0),
                  ones |-> d_last.ones + (IF Len(chunk) = 1 THEN 1 ELSE 0),
                  failed |-> d_last.failed \/ DFatal,
                  accepted |-> d_last.accepted \o
                                  (IF r.codec THEN rest ELSE <<>>),
                  consumed |-> d_last.consumed \o
                                  Take(ds.buffer \o rest, srcsize)]
    /\ d_in' = d_in \o chunk
    /\ d_outcat' = d_outcat \o r.odata
    /\ d_calls' = d_calls + (IF r.codec THEN 1 ELSE 0)
    /\ heap' = IF r.stream.buffer_mallocs > ds.buffer_mallocs
               THEN HeapAlloc(heap, "dbuffer") ELSE heap

\* the round-trip caller feeds the next n bytes of the sink to the decoder
Pump(n) ==
    /\ fed + n <= Len(wire)
    /\ DStep(SubSeq(wire, fed + 1, fed + n))
    /\ fed' = fed + n
    /\ UNCHANGED <<c_vars, split, life, s_vars>>

\* a caller feeds any bytes to the decoder
DFeed(chunk) ==
    /\ d_last.n < MaxDFeeds
    /\ Len(d_in) + Len(chunk) <= MaxTotal
    /\ DStep(chunk)
    /\ UNCHANGED <<fed, c_vars, split, life, s_vars>>

CFeedAny == \E chunk \in CChunks, cerr \in BOOLEAN : CFeed(chunk, cerr)
PumpAny == \E n \in 1..MaxPump : Pump(n)
DFeedAny == \E chunk \in SeqsUpTo(DByte, MaxChunk) : DFeed(chunk)

\* compression, and decompression of what it produced
Next == CFeedAny \/ PumpAny
Spec == Init /\ [][Next]_vars

\* the compression stream alone
NextC == CFeedAny
SpecC == Init /\ [][NextC]_vars

\* the decompression stream alone, fed any bytes
NextD == DFeedAny
SpecD == Init /\ [][NextD]_vars

(***************************************************************************)
(* Two fresh decompression streams given the same bytes S: one in a single *)
(* call, the other as S[1..k] then S[k+1..].                               *)
(***************************************************************************)
InitSplit ==
    /\ InitC /\ InitD /\ InitL /\ InitS
    /\ \E S \in SeqsUpTo(DByte, MaxTotal) : \E k \in 0..Len(S) :
          split = [SplitIdle EXCEPT !.S = S, !.k = k, !.pc = "start"]

FeedWhole ==
    /\ split.pc = "start"
    /\ split' = [split EXCEPT
                   !.one = xm_lz4_dstream_decompress(xm_lz4_dstream_init, split.S),
                   !.pc = "whole"]
    /\ UNCHANGED <<c_vars, d_vars, l_vars, s_vars>>

FeedA ==
    /\ split.pc = "whole"
    /\ split' = [split EXCEPT
                   !.a = xm_lz4_dstream_decompress(xm_lz4_dstream_init,
                                                   Take(split.S, split.k)),
                   !.pc = "a"]
    /\ UNCHANGED <<c_vars, d_vars, l_vars, s_vars>>

FeedB ==
    /\ split.pc = "a"
    /\ split' = [split EXCEPT
                   !.b = xm_lz4_dstream_decompress(split.a.stream,
                                                   Drop(split.S, split.k)),
                   !.pc = "done"]
    /\ UNCHANGED <<c_vars, d_vars, l_vars, s_vars>>

NextSplit == FeedWhole \/ FeedA \/ FeedB
SpecSplit == InitSplit /\ [][NextSplit]_vars

\* a script using the sandbox io module
StdfileAny == \E i \in StdKeys, ok \in BOOLEAN : sandbox_io_stdfile(i, ok)
IndexAny == \E i \in StdKeys, ok \in BOOLEAN : sandbox_io_index(i, ok)
OpenAny == \E ok \in BOOLEAN : sandbox_io_open(ok)
OpenlockAny == \E ok \in BOOLEAN : sandbox_io_openlock(ok)
OpensockAny == \E ok \in BOOLEAN : sandbox_io_opensock(ok)

NextIO == StdfileAny \/ IndexAny \/ OpenAny \/ OpenlockAny \/ OpensockAny
SpecIO == Init /\ [][NextIO]_vars

(***************************************************************************)
(* A decompression stream whose first chunk is exactly a frame header of   *)
(* any block-size class, listed or not, fed any bytes afterwards.          *)
(***************************************************************************)
\* the values a header can carry as its class: those of the switch, the
\* values between them and one past the largest
HeaderClasses == LZ4F_default .. (LZ4F_max4MB + 1)

\* a frame header of class id, as long as the header scratch
HeaderOf(id) ==
    [i \in 1..LZ4F_HEADER_SIZE_MAX |->
        IF i = 1 THEN LZ4F_MAGIC ELSE IF i = 2 THEN id ELSE 0]

DFeedHeader(id) ==
    /\ d_last.n = 0
    /\ DFeed(HeaderOf(id))

DFeedAfter ==
    /\ d_last.n > 0
    /\ DFeedAny

\* a first chunk that is a header of a class of KiB64 bytes followed by one
\* byte more than the buffer of that class holds
DFeedHeaderOverfull(id) ==
    /\ d_last.n = 0
    /\ DStep(HeaderOf(id) \o Zeros(KiB64 + 1))
    /\ UNCHANGED <<fed, c_vars, split, life, s_vars>>

DFeedHeaderAny == \E id \in HeaderClasses : DFeedHeader(id)
DFeedHeaderOverfullAny ==
    \E id \in {LZ4F_default, LZ4F_max64KB} : DFeedHeaderOverfull(id)

NextClass == DFeedHeaderAny \/ DFeedHeaderOverfullAny \/ DFeedAfter
SpecClass == Init /\ [][NextClass]_vars

(***************************************************************************)
(* The life of a stream: construction, which may fail at any of its steps, *)
(* feeds, destruction.  The two streams share nothing; the decompression   *)
(* stream is taken through its life first, the compression stream after.   *)
(* What the caller recorded of a stream goes when the stream is destroyed. *)
(***************************************************************************)
InitLife ==
    /\ cs = NULL
    /\ c_last = CNoCall
    /\ plain = <<>>
    /\ wire = <<>>
    /\ c_calls = 0
    /\ c_seen = 0
    /\ ds = NULL
    /\ d_last = DNoCall
    /\ d_in = <<>>
    /\ d_outcat = <<>>
    /\ d_calls = 0
    /\ fed = 0
    /\ split = SplitIdle
    /\ heap = HeapEmpty
    /\ life = LifeNone
    /\ InitS

LCInit(fail) ==
    /\ life.d \in {"null", "exited"}
    /\ life.c = "none"
    /\ LET r == xm_lz4_cstream_init_at(fail, heap) IN
       /\ cs' = r.stream
       /\ heap' = r.heap
       /\ life' = [life EXCEPT !.c = IF r.stream = NULL THEN "null" ELSE "live",
                               !.cfail = fail]
    /\ UNCHANGED <<c_last, plain, wire, c_calls, c_seen, d_vars, split, s_vars>>

LCFeed ==
    /\ life.c = "live"
    /\ CFeedAny

LCExit ==
    /\ life.c = "live"
    /\ heap' = xm_lz4_cstream_exit(cs, heap)
    /\ life' = [life EXCEPT !.c = "exited"]
    /\ cs' = NULL
    /\ c_last' = CNoCall
    /\ plain' = <<>>
    /\ wire' = <<>>
    /\ c_calls' = 0
    /\ c_seen' = 0
    /\ UNCHANGED <<d_vars, split, s_vars>>

LDInit(fail) ==
    /\ life.d = "none"
    /\ LET r == xm_lz4_dstream_init_at(fail, heap) IN
       /\ ds' = r.stream
       /\ heap' = r.heap
       /\ life' = [life EXCEPT !.d = IF r.stream = NULL THEN "null" ELSE "live",
                               !.dfail = fail]
    /\ UNCHANGED <<d_last, d_in, d_outcat, d_calls, fed, c_vars, split, s_vars>>

\* the bytes fed to a stream that is to be destroyed: as DByte, without the
\* 256KB class
LifeByte == {0, 1, LZ4F_MAGIC}

LDFeed ==
    /\ life.d = "live"
    /\ \E chunk \in SeqsUpTo(LifeByte, MaxChunk) : DFeed(chunk)

LDExit ==
    /\ life.d = "live"
    /\ heap' = xm_lz4_dstream_exit(ds, heap)
    /\ life' = [life EXCEPT !.d = "exited", !.derrs = d_last.errs > 0]
    /\ ds' = NULL
    /\ d_last' = DNoCall
    /\ d_in' = <<>>
    /\ d_outcat' = <<>>
    /\ d_calls' = 0
    /\ UNCHANGED <<fed, c_vars, split, s_vars>>

LCInitAny == \E fail \in CInitFails : LCInit(fail)
LDInitAny == \E fail \in DInitFails : LDInit(fail)

NextLife == LCInitAny \/ LCFeed \/ LCExit \/ LDInitAny \/ LDFeed \/ LDExit
SpecLife == InitLife /\ [][NextLife]_vars

(***************************************************************************)
(* Properties.                                                             *)
(***************************************************************************)
\* a header the codec accepts and whose class it knows
ValidHeader(h) ==
    /\ ~LZ4F_getFrameInfo(h).err
    /\ LZ4F_blockSize(LZ4F_getFrameInfo(h).blockSizeID) # 0

\* the classes of the fixed table
TableClasses ==
    {LZ4F_default, LZ4F_max64KB, LZ4F_max256KB, LZ4F_max1MB, LZ4F_max4MB}

\* the chunk bytes left after the header phase of the latest decoder call
DRest == Len(d_last.chunk) - d_last.took

\* C1 (round trip): when no call has failed and the decoder has been fed
\* everything the compressor returned, the decoder's outputs concatenated are
\* the chunks that were compressed, concatenated.
C1_RoundTrip ==
    (c_last.errs = 0 /\ d_last.errs = 0 /\ fed = Len(wire))
        => d_outcat = plain

SplitWholeDrained ==
    /\ split.one.ret >= 0
    /\ split.one.stream.dctx.tmpOut = <<>>

C3_FirstFeedReturnsHeader ==
    (c_last.n = 1 /\ Len(c_last.chunk) <= c_last.pre.write_maxn)
        => /\ c_last.ret = LZ4F_HEADER_SIZE_MAX
           /\ c_last.odata = LZ4F_compressBegin

\* C3 (amended): the first call on a fresh stream returns the header, all
\* LZ4F_HEADER_SIZE_MAX bytes of it, for every chunk of 1..write_maxn bytes;
\* an empty chunk is refused with -1 and the header stays pending.
C3_FirstFeedReturnsHeaderNonEmpty ==
    c_last.n = 1 =>
        /\ (1 <= Len(c_last.chunk) /\ Len(c_last.chunk) <= c_last.pre.write_maxn)
              => /\ c_last.ret = LZ4F_HEADER_SIZE_MAX
                 /\ c_last.odata = LZ4F_compressBegin
                 /\ Len(c_last.odata) = LZ4F_HEADER_SIZE_MAX
        /\ Len(c_last.chunk) = 0
              => /\ c_last.ret = -1
                 /\ c_last.odata = <<>>
                 /\ ~cs.header_written

\* C3 witness: the first call, with a chunk of write_maxn bytes not all zero,
\* returned the header.
C3_Witness ==
    /\ c_last.n = 1
    /\ Len(c_last.chunk) = c_last.pre.write_maxn
    /\ c_last.chunk # Zeros(Len(c_last.chunk))
    /\ c_last.ret = LZ4F_HEADER_SIZE_MAX

\* C4 (header once): header_written is false exactly until a call has
\* succeeded; the first successful call returns the header without calling
\* the codec; every later successful call returns the codec's block for its
\* own chunk; no call on a stream whose header is out returns without the
\* codec; header_written never goes back to false.
C4_HeaderOnce ==
    /\ cs.header_written <=> (c_last.n - c_last.errs > 0)
    /\ c_last.n >= 1 =>
        /\ (c_last.ret >= 0 /\ ~c_last.pre.header_written)
              => /\ c_last.odata = c_last.pre.header
                 /\ ~c_last.codec
                 /\ cs.header_written
                 /\ cs.buffer = c_last.pre.buffer
        /\ (c_last.ret >= 0 /\ c_last.pre.header_written)
              => /\ c_last.codec
                 /\ c_last.odata = LZ4F_compressUpdate(c_last.chunk)
                 /\ c_last.ret = Len(c_last.odata)
        /\ c_last.pre.header_written => cs.header_written
        /\ (c_last.ret < 0) => (cs.header_written = c_last.pre.header_written)
    /\ wire # <<>> => Take(wire, LZ4F_HEADER_SIZE_MAX) = cs.header

\* C4 witness: after the header and a refused call, a third call compressed
\* its chunk.
C4_Witness ==
    /\ c_last.n = 3
    /\ c_last.errs = 1
    /\ c_last.pre.header_written
    /\ c_last.codec
    /\ c_last.ret > 0

\* C5 (oversized chunk): a chunk longer than write_maxn is refused with -1,
\* before and after the header, without calling the codec and leaving the
\* stream (header_written, buffer) as it was.
C5_OversizedChunk ==
    (c_last.n >= 1 /\ Len(c_last.chunk) > c_last.pre.write_maxn)
        => /\ c_last.ret = -1
           /\ c_last.odata = <<>>
           /\ ~c_last.codec
           /\ cs = c_last.pre

\* C5 witness: an oversized chunk refused by a stream that has emitted its
\* header and compressed a chunk.
C5_Witness ==
    /\ Len(c_last.chunk) > c_last.pre.write_maxn
    /\ c_last.pre.header_written
    /\ c_last.pre.buffer # <<>>
    /\ c_last.ret = -1

\* C6 (header atomicity on decode): while a fresh stream has only been fed
\* single bytes, fewer than the header has, every call returned 0 with no
\* output, the header is incomplete, no buffer is allocated and the codec
\* has not decoded; once the bytes fed are a whole valid header, the header
\* is complete and the buffer is allocated with the capacity of its class.
C6_HeaderByteByByte ==
    (d_last.n >= 1 /\ d_last.ones = d_last.n /\ d_last.n <= header_size)
        => /\ d_last.n < header_size
              => /\ d_last.ret = 0
                 /\ d_last.odata = <<>>
                 /\ d_last.errs = 0
                 /\ ds.header_size = d_last.n
                 /\ ~ds.buffer_alloc
                 /\ d_calls = 0
           /\ (d_last.n = header_size /\ ValidHeader(d_in))
              => /\ ds.header_size = header_size
                 /\ ds.header = d_in
                 /\ ds.buffer_alloc
                 /\ ds.buffer_maxn =
                        LZ4F_blockSize(LZ4F_getFrameInfo(d_in).blockSizeID)
                 /\ ds.buffer_size = 0

\* C6 witness: the header the compressor writes has been fed in
\* LZ4F_HEADER_SIZE_MAX calls of one byte and the stream is decoding blocks.
C6_Witness ==
    /\ d_last.n = header_size
    /\ d_last.ones = d_last.n
    /\ d_in = LZ4F_compressBegin
    /\ ds.buffer_alloc
    /\ d_last.ret = 0

\* C7 (header bytes consumed byte-exactly): a call made while the header is
\* incomplete adds min(header_size - received, chunk length) bytes to it;
\* header_size of the stream never exceeds sizeof(header); the bytes received
\* are the first bytes of the input in order, so the complete header is the
\* first LZ4F_HEADER_SIZE_MAX bytes of the concatenated input.
C7_HeaderByteExact ==
    /\ ds.header_size <= header_size
    /\ ds.header_size = Min(header_size, Len(d_in))
    /\ Take(ds.header, ds.header_size) = Take(d_in, ds.header_size)
    /\ (d_last.n >= 1 /\ d_last.pre.header_size < header_size)
          => /\ ds.header_size - d_last.pre.header_size
                  = Min(header_size - d_last.pre.header_size, Len(d_last.chunk))
             /\ d_last.took = ds.header_size - d_last.pre.header_size
    /\ (d_last.n >= 1 /\ d_last.pre.header_size = header_size)
          => /\ d_last.took = 0
             /\ ds.header = d_last.pre.header

\* C7 witness: the header was completed by a chunk that came after an
\* earlier part of it and that was longer than what the header still needed.
C7_Witness ==
    /\ ds.header_size = header_size
    /\ d_last.pre.header_size > 0
    /\ d_last.pre.header_size < header_size
    /\ Len(d_last.chunk) > d_last.took
    /\ ds.header = Take(d_in, header_size)

\* the latest call's chunk was wholly taken into a header still incomplete
DAbsorbed ==
    /\ d_last.n >= 1
    /\ Len(d_last.chunk) > 0
    /\ ds.header_size < header_size

\* the latest call's chunk exactly completed a valid header
DExactlyCompleted ==
    /\ d_last.n >= 1
    /\ d_last.pre.header_size < header_size
    /\ ds.header_size = header_size
    /\ Len(d_last.chunk) = header_size - d_last.pre.header_size
    /\ ValidHeader(ds.header)

\* the latest call returned "need more input" and touched neither the input
\* buffer nor the codec
DNeedMoreInput ==
    /\ d_last.ret = 0
    /\ d_last.odata = <<>>
    /\ ~d_last.codec
    /\ ds.buffer = d_last.pre.buffer
    /\ ds.buffer_size = d_last.pre.buffer_size

\* C8 (need more input, as claimed): a call with no chunk bytes left after
\* the header phase, an empty chunk included, returns 0 with no output.
C8_NoBytesLeftReturnsZero ==
    (d_last.n >= 1 /\ (DAbsorbed \/ DExactlyCompleted \/ Len(d_last.chunk) = 0))
        => DNeedMoreInput

\* C8 (amended): a call whose non-empty chunk was wholly taken into a header
\* still incomplete, or exactly completed a valid header, returns 0 with no
\* output, appends nothing and does not decode; an empty chunk is refused
\* with -1 and leaves the stream as it was.
C8_NoBytesLeftNonEmpty ==
    /\ (DAbsorbed \/ DExactlyCompleted) => DNeedMoreInput
    /\ (d_last.n >= 1 /\ Len(d_last.chunk) = 0)
          => /\ d_last.ret = -1
             /\ d_last.odata = <<>>
             /\ ~d_last.codec
             /\ ds = d_last.pre

\* C8 witness: a chunk exactly completed a valid header begun by an earlier
\* call, and the call returned 0.
C8_Witness ==
    /\ DExactlyCompleted
    /\ d_last.pre.header_size > 0
    /\ d_last.ret = 0
    /\ ds.buffer_alloc

\* the header is complete, the codec accepts it, and its class is not one of
\* the table
DUnsupportedClass ==
    /\ ds.header_size = header_size
    /\ ~LZ4F_getFrameInfo(ds.header).err
    /\ LZ4F_getFrameInfo(ds.header).blockSizeID \notin TableClasses

\* C9 (unsupported block size): when the complete header has a class that is
\* not in the table, the call that completed it returned -1, the buffer is
\* not allocated, and no call, that one or a later one, has decoded or
\* returned output.
C9_UnsupportedBlockSize ==
    DUnsupportedClass
        => /\ ~ds.buffer_alloc
           /\ ds.buffer_size = 0
           /\ d_calls = 0
           /\ d_outcat = <<>>
           /\ d_last.pre.header_size < header_size => d_last.ret = -1
           /\ d_last.pre.header_size = header_size => d_last.ret < 0

\* C9 witness: a call with more bytes after the header of an unlisted class
\* had been completed; it returned -1 without decoding.
C9_Witness ==
    /\ DUnsupportedClass
    /\ d_last.pre.header_size = header_size
    /\ Len(d_last.chunk) > 0
    /\ d_last.ret = -1
    /\ ~d_last.codec

\* the latest call had chunk bytes left for a stream with a buffer, more than
\* the buffer has room for
DOverflowing ==
    /\ d_last.n >= 1
    /\ ds.buffer_alloc
    /\ DRest > 0
    /\ d_last.pre.buffer_size + DRest > ds.buffer_maxn

\* C10 (overflow guard): a call whose remaining chunk would take buffer_size
\* beyond the capacity of the header's class returns -1 with no output and
\* without a call of the decoder.
C10_OverflowGuard ==
    DOverflowing
        => /\ d_last.ret = -1
           /\ d_last.odata = <<>>
           /\ ~d_last.codec
           /\ ds.output = d_last.pre.output

\* C10 witness: bytes were already buffered, the chunk alone would have
\* fitted, and the call was refused.
C10_Witness ==
    /\ DOverflowing
    /\ d_last.pre.buffer_size > 0
    /\ DRest <= ds.buffer_maxn
    /\ d_last.ret = -1

\* C11 (Failed is absorbing): once a call on a stream has returned -1 for a
\* chunk that was not empty, every later call on that stream returns -1 and
\* hands out no bytes.
C11_FailedAbsorbing ==
    /\ c_last.failed => (c_last.ret < 0 /\ c_last.odata = <<>>)
    /\ d_last.failed => (d_last.ret < 0 /\ d_last.odata = <<>>)

\* each resource of the set has been freed as often as allocated, and
\* allocated at most once
Released(h, R) ==
    \A r \in R : h.free[r] = h.alloc[r] /\ h.alloc[r] <= 1

\* nothing has been freed that was not allocated
NoDoubleFree(h) == \A r \in Resources : h.free[r] <= h.alloc[r]

\* C12 (construction never leaks): when a step of xm_lz4_cstream_init or of
\* xm_lz4_dstream_init fails, the caller gets null, and the record, the
\* buffer and the codec context allocated before that step have each been
\* freed exactly once.
C12_InitNeverLeaks ==
    /\ (life.c # "none" /\ life.cfail # "none")
           => (life.c = "null" /\ cs = NULL /\ Released(heap, CResources))
    /\ (life.d # "none" /\ life.dfail # "none")
           => (life.d = "null" /\ ds = NULL /\ Released(heap, DResources))
    /\ NoDoubleFree(heap)

\* both constructors have failed at their last step, with everything before
\* it allocated and freed
C12_Witness ==
    /\ life.cfail = "begin" /\ life.c = "null"
    /\ \A r \in CResources : heap.alloc[r] = 1 /\ heap.free[r] = 1
    /\ life.dfail = "dctx" /\ life.d = "null"
    /\ heap.alloc["dstream"] = 1 /\ heap.free["dstream"] = 1

\* C13 (destroy releases everything): whatever calls a decompression stream
\* has had, its input buffer has been allocated at most once, and after
\* xm_lz4_dstream_exit the codec context, the stream record and the input
\* buffer, if there was one, have each been freed exactly once: nothing of
\* the stream is left allocated.
C13_DestroyReleasesAll ==
    /\ heap.alloc["dbuffer"] <= 1
    /\ life.d = "live" => (ds.buffer_alloc <=> heap.alloc["dbuffer"] = 1)
    /\ life.d = "exited"
           => /\ Released(heap, DResources)
              /\ heap.free["dctx"] = 1
              /\ heap.free["dstream"] = 1
    /\ NoDoubleFree(heap)

\* a stream destroyed after a call that returned -1, its buffer allocated
C13_Witness ==
    /\ life.d = "exited"
    /\ life.derrs
    /\ heap.alloc["dbuffer"] = 1 /\ heap.free["dbuffer"] = 1

\* C14 (input-buffer bound): once the input buffer is allocated, the count
\* of bytes held in it never exceeds its capacity, whatever calls follow,
\* failing ones included; the count is the number of bytes held.
C14_InputBufferBound ==
    ds.buffer_alloc =>
        /\ ds.buffer_size <= ds.buffer_maxn
        /\ Len(ds.buffer) = ds.buffer_size

\* the buffer is full to its capacity after a call that returned -1
C14_Witness ==
    /\ ds.buffer_alloc
    /\ ds.buffer_size = ds.buffer_maxn
    /\ d_last.ret < 0

\* the bytes in the input buffer when the latest call reached the codec
DAppended == d_last.pre.buffer \o Drop(d_last.chunk, d_last.took)

\* how many of them the codec reported as consumed in that call
DConsumed ==
    LZ4F_decompress([maxBlock |-> ds.dctx.maxBlock,
                     tmpOut |-> d_last.pre.dctx.tmpOut],
                    DAppended, TB_STREAM_BLOCK_MAXN).srcsize

\* C15 (compaction): after a call whose decode succeeded and consumed c of
\* the n bytes in the buffer, the buffer holds n - c bytes and they are the
\* bytes that were at positions c .. n-1, in their order.
C15_Compaction ==
    (d_last.codec /\ d_last.ret >= 0) =>
        /\ ds.buffer_size = Len(DAppended) - DConsumed
        /\ Len(ds.buffer) = ds.buffer_size
        /\ ds.buffer = SubSeq(DAppended, DConsumed + 1, Len(DAppended))

\* a decode that consumed some bytes, not all, and left more than one
C15_Witness ==
    /\ d_last.codec /\ d_last.ret >= 0
    /\ DConsumed > 0
    /\ Len(DAppended) - DConsumed > 1
    /\ ds.buffer[1] # ds.buffer[2]

\* the latest call took the stream from awaiting its header to decoding
\* blocks: it parsed the header and allocated the input buffer
DTransition == ~d_last.pre.buffer_alloc /\ ds.buffer_alloc

\* C16 (decode state machine): the input buffer is allocated at most once,
\* and only by the call in which header_size reaches sizeof(header); a call
\* on a stream whose header is complete copies nothing into the header and
\* changes neither the header, the capacity nor the allocation; and no call
\* reaches the codec while header_size < sizeof(header).
C16_DecodeStateMachine ==
    /\ ds.buffer_mallocs <= 1
    /\ DTransition =>
           /\ d_last.pre.header_size < header_size
           /\ ds.header_size = header_size
    /\ ds.header_size >= d_last.pre.header_size
    /\ d_last.pre.header_size = header_size =>
           /\ d_last.took = 0
           /\ ds.header = d_last.pre.header
           /\ ds.header_size = header_size
           /\ ds.buffer_maxn = d_last.pre.buffer_maxn
           /\ ds.buffer_alloc = d_last.pre.buffer_alloc
           /\ ds.buffer_mallocs = d_last.pre.buffer_mallocs
    /\ d_last.codec => ds.header_size = header_size
    /\ ds.header_size < header_size => (d_calls = 0 /\ ~ds.buffer_alloc)

\* the header was completed by an earlier call, and two calls since have
\* reached the codec
C16_Witness ==
    /\ d_last.pre.header_size = header_size
    /\ d_last.pre.buffer_alloc
    /\ d_last.codec
    /\ d_calls >= 2
    /\ ds.buffer_mallocs = 1

\* the fixed table of the block-size classes
ClassCapacity(id) ==
    CASE id = LZ4F_default -> KiB64
      [] id = LZ4F_max64KB -> KiB64
      [] id = LZ4F_max256KB -> 4 * KiB64
      [] id = LZ4F_max1MB -> 16 * KiB64
      [] id = LZ4F_max4MB -> 64 * KiB64
      [] OTHER -> 0

\* C17 (block-size table): when the header has completed and the buffer is
\* allocated, its capacity is the table's entry for the class in the header
\* (default and 64KB: 64 KiB, 256KB: 256 KiB, 1MB: 1 MiB, 4MB: 4 MiB), and
\* no later call changes it.
C17_BlockSizeTable ==
    /\ ds.buffer_alloc =>
           /\ ds.header[2] \in TableClasses
           /\ ds.buffer_maxn = ClassCapacity(ds.header[2])
    /\ d_last.pre.buffer_alloc => ds.buffer_maxn = d_last.pre.buffer_maxn

\* a header of the 4MB class, and a call after the one that completed it
C17_Witness ==
    /\ ds.header[2] = LZ4F_max4MB
    /\ d_last.pre.buffer_alloc
    /\ d_last.n >= 2
    /\ ds.buffer_maxn = 64 * KiB64

\* C18 (post-header stream integrity): at every point, the bytes the codec
\* has reported as consumed followed by the bytes in the input buffer are, in
\* order, the bytes past the header of the chunks that passed the overflow
\* check: none dropped, doubled or moved before the codec sees it.
C18_PostHeaderIntegrity ==
    /\ d_last.consumed \o ds.buffer = d_last.accepted
    /\ Len(ds.buffer) = ds.buffer_size

\* two calls have reached the codec, it has consumed bytes of both, and
\* bytes are left in the buffer
C18_Witness ==
    /\ d_calls >= 2
    /\ Len(d_last.consumed) >= 2
    /\ ds.buffer # <<>>

\* the latest call was refused by the check of line 233
DRefusedForRoom ==
    /\ d_last.n >= 1
    /\ d_last.ret = -1
    /\ ds.header_size = header_size
    /\ DRest > 0
    /\ ds.buffer_alloc
    /\ d_last.pre.buffer_size + DRest > ds.buffer_maxn

\* C19 (overflow rejection frame, as claimed): a call refused by the
\* overflow check leaves buffer_size, the bytes of the buffer, its capacity
\* and the codec context as they were before the call.
C19_OverflowFrame ==
    DRefusedForRoom =>
        /\ ds.buffer_size = d_last.pre.buffer_size
        /\ ds.buffer = d_last.pre.buffer
        /\ ds.buffer_maxn = d_last.pre.buffer_maxn
        /\ ds.dctx = d_last.pre.dctx

\* C19 (amended): a call on a stream whose header was complete before the
\* call, refused by the overflow check, leaves the whole stream record, the
\* codec context included, as it was before the call.
C19_OverflowFrameAfterHeader ==
    (DRefusedForRoom /\ d_last.pre.header_size = header_size)
        => ds = d_last.pre

\* a refused call on a stream that had its header and bytes in its buffer
C19_Witness ==
    /\ DRefusedForRoom
    /\ d_last.pre.header_size = header_size
    /\ d_last.pre.buffer_size > 0
    /\ d_last.pre.dctx.maxBlock > 0

\* C20 (the hooking is idempotent): on every handle the sandbox has
\* returned, however many times, each name of the sandbox table of its kind
\* is the sandbox function and "_" .. name is the method of the host class;
\* no underscored name is a sandbox function.
C20_HookIdempotent ==
    \A h \in Handles : sio.hooks[h] >= 1 =>
        /\ \A n \in SandboxTable(h.kind) :
              /\ Lookup(sio.inst[h], h.kind, Key(n)) = Wrapper(h.kind, n)
              /\ Lookup(sio.inst[h], h.kind, Underscore(Key(n)))
                    = HostMethod(h.kind, n)
        /\ \A k \in Keys(h.kind) :
              StartsWithUnderscore(k) => sio.inst[h][k].by # "sandbox"

\* a standard file returned twice, once of them by the lazy loading, and a
\* file and a file lock returned
C20_Witness ==
    /\ \E i \in StdKeys : sio.hooks[StdFile(i)] >= 2 /\ sio.cache[i]
    /\ sio.hooks[Opened("file", 1)] = 1
    /\ sio.hooks[Opened("filelock", 1)] = 1

====
